---- MODULE Spec2Model ----
(***************************************************************************)
(* Model of the two SQL text utilities of the repository:                  *)
(*   scripts/util/filter_policies.py     (StatementFilter)                 *)
(*   scripts/util/sql_add_on_conflict.py (ConflictRewriter)                *)
(* Text is a sequence of one-character strings, a file is its text, and    *)
(* a run of a tool is a walk of pc through the script's statements.        *)
(***************************************************************************)
EXTENDS Integers, Sequences, FiniteSets

VARIABLES
    tool,         \* which script runs
    argc,         \* len(sys.argv) - 1
    pc,           \* position in the script
    srcExists,    \* does the source/input path name a file
    srcText,      \* its content
    dstOpen,      \* what open(destination, "w") does: "ok", "enoent", "eacces"
    dstExists,    \* does the destination/output path name a file
    dstText,      \* its content
    dstOld,       \* did the destination exist (holding OldText) before the run
    handles,      \* file objects currently open
    opens,        \* the open() calls made so far, in order
    exitCode,     \* -1 while running
    stderr,       \* termination message
    rest,         \* lines the file iterator has not yet yielded
    nread,        \* lines yielded so far
    statement,    \* filter_policies: lines of the statement being accumulated
    statements,   \* filter_policies: closed statements
    wi,           \* filter_policies: position of the write loop in statements
    inside,       \* sql_add_on_conflict: scanner state
    buffer,       \* sql_add_on_conflict: lines of the INSERT being accumulated
    run,          \* 1, or 2 when filter_policies runs again on its own output
    firstOut      \* destination text of run 1, kept by the second invocation's caller

vars == <<tool, argc, pc, srcExists, srcText, dstOpen, dstExists, dstText, dstOld,
          handles, opens, exitCode, stderr, rest, nread, statement, statements,
          wi, inside, buffer, run, firstOut>>

fsVars == <<srcExists, dstOpen, dstOld>>
filterVars == <<statement, statements, wi>>
rewriteVars == <<inside, buffer>>

\* ---------------------------------------------------------------- bounds
MaxLines == 3

\* ------------------------------------------------------------- characters
LOWERS == <<"a", "b", "c", "d", "e", "f", "g", "h", "i", "j", "k", "l", "m",
            "n", "o", "p", "q", "r", "s", "t", "u", "v", "w", "x", "y", "z">>
UPPERS == <<"A", "B", "C", "D", "E", "F", "G", "H", "I", "J", "K", "L", "M",
            "N", "O", "P", "Q", "R", "S", "T", "U", "V", "W", "X", "Y", "Z">>

IsSpace(c) == c \in {" ", "\t", "\n", "\r"}

UpperChar(c) ==
    IF \E i \in 1..Len(LOWERS) : LOWERS[i] = c
    THEN UPPERS[CHOOSE i \in 1..Len(LOWERS) : LOWERS[i] = c]
    ELSE c

LowerChar(c) ==
    IF \E i \in 1..Len(UPPERS) : UPPERS[i] = c
    THEN LOWERS[CHOOSE i \in 1..Len(UPPERS) : UPPERS[i] = c]
    ELSE c

\* str.upper() / str.lower()
upper(s) == [i \in 1..Len(s) |-> UpperChar(s[i])]
lower(s) == [i \in 1..Len(s) |-> LowerChar(s[i])]

Max(S) == CHOOSE x \in S : \A y \in S : y <= x
Min(S) == CHOOSE x \in S : \A y \in S : x <= y

\* str.rstrip(): drop the trailing whitespace
rstrip(s) ==
    LET keep == {i \in 1..Len(s) : ~IsSpace(s[i])}
    IN  IF keep = {} THEN <<>> ELSE SubSeq(s, 1, Max(keep))

\* str.lstrip()
lstrip(s) ==
    LET keep == {i \in 1..Len(s) : ~IsSpace(s[i])}
    IN  IF keep = {} THEN <<>> ELSE SubSeq(s, Min(keep), Len(s))

\* str.strip()
strip(s) == lstrip(rstrip(s))

\* str.rstrip(";"): drop every trailing semicolon
rstripSemi(s) ==
    LET keep == {i \in 1..Len(s) : s[i] # ";"}
    IN  IF keep = {} THEN <<>> ELSE SubSeq(s, 1, Max(keep))

\* str.startswith / str.endswith / the `in` operator on strings
startswith(s, p) == Len(p) <= Len(s) /\ SubSeq(s, 1, Len(p)) = p
endswith(s, p) == Len(p) <= Len(s) /\ SubSeq(s, Len(s) - Len(p) + 1, Len(s)) = p
contains(s, p) ==
    \E i \in 0..(Len(s) - Len(p)) : SubSeq(s, i + 1, i + Len(p)) = p

\* "".join(list)
RECURSIVE join(_)
join(ls) == IF ls = <<>> THEN <<>> ELSE ls[1] \o join(Tail(ls))

\* Iterating a text file yields its lines, each keeping its "\n"; the last
\* line has none when the file does not end with a newline.
RECURSIVE SplitLines(_)
SplitLines(t) ==
    IF t = <<>> THEN <<>>
    ELSE LET nl == {i \in 1..Len(t) : t[i] = "\n"}
         IN  IF nl = {} THEN <<t>>
             ELSE <<SubSeq(t, 1, Min(nl))>>
                  \o SplitLines(SubSeq(t, Min(nl) + 1, Len(t)))

\* line.rstrip().endswith(";")
EndsSemi(line) == endswith(rstrip(line), <<";">>)

\* ------------------------------------------------------------ the inputs
OldText == <<"o", "l", "d", "\n">>

FilterLines == {
    <<"x", ";", "\n">>,
    <<"x", "\n">>,
    <<"\n">>,
    <<" ", "y", ";", " ", "\n">>,
    <<"S", "t", "o", "r", "a", "g", "e", ".", "o", ";", "\n">>,
    <<"\"", "S", "T", "O", "R", "A", "G", "E", "\"", "\n">>,
    <<"s", "t", "o", "r", "a", "g", "e", ";", "\n">> }

FilterLastLines == { <<"z">>, <<"y", ";">> }

RewriteLines == {
    <<"I", "N", "S", "E", "R", "T", " ", "I", "N", "T", "O", " ", "t", ";", "\n">>,
    <<"i", "n", "s", "e", "r", "t", " ", "i", "n", "t", "o", " ", "t", "\n">>,
    <<"(", "1", ")", ";", "\n">>,
    <<"(", "1", ")", ",", "\n">>,
    <<"x", ";", ";", " ", "\n">>,
    <<"x", ";", "\n">> }

RewriteLastLines == {
    <<"(", "2", ")">>,
    <<"y", ";">>,
    <<"i", "n", "s", "e", "r", "t", " ", "i", "n", "t", "o", " ", "u", ";", ";">> }

SeqsUpTo(S, n) == UNION {[1..k -> S] : k \in 0..n}

\* Files of at most MaxLines lines: whole lines, the last one possibly
\* without its newline.
Files(whole, last) ==
    {join(ls) : ls \in SeqsUpTo(whole, MaxLines)}
    \cup {join(ls) \o l : ls \in SeqsUpTo(whole, MaxLines - 1), l \in last}

Inputs(t) ==
    IF t = "filter_policies" THEN Files(FilterLines, FilterLastLines)
    ELSE Files(RewriteLines, RewriteLastLines)

\* --------------------------------------------------------------- messages
UsageMsg(t) == <<"Usage", t>>
SourceNotFoundMsg == <<"Source SQL file not found", "source">>
InputNotFoundMsg == <<"[ERROR] File not found", "input_path">>
Traceback(what) == <<"Traceback", what>>
NoMsg == <<>>

\* sys.exit / raise SystemExit / an uncaught exception
Exit(code, msg) ==
    /\ pc' = "exited"
    /\ exitCode' = code
    /\ stderr' = msg

\* ------------------------------------------------------------------- Init
Init ==
    /\ tool \in {"filter_policies", "sql_add_on_conflict"}
    /\ argc \in 0..3
    /\ pc = "args"
    /\ srcExists \in BOOLEAN
    /\ srcText = <<>>
    /\ dstOpen \in {"ok", "enoent", "eacces"}
    /\ dstOld \in BOOLEAN
    /\ dstOpen = "enoent" => ~dstOld    \* no file in a directory that is missing
    /\ dstExists = dstOld
    /\ dstText = IF dstOld THEN OldText ELSE <<>>
    /\ handles = {}
    /\ opens = <<>>
    /\ exitCode = -1
    /\ stderr = NoMsg
    /\ rest = <<>>
    /\ nread = 0
    /\ statement = <<>>
    /\ statements = <<>>
    /\ wi = 1
    /\ inside = FALSE
    /\ buffer = <<>>
    /\ run = 1
    /\ firstOut = <<>>

\* ------------------------------------------------------- both: arguments
\* mutant: `len(sys.argv) < 3`, which lets extra arguments through
BadArgCountTooFew(n) == n < 2

\* if len(sys.argv) != 3
BadArgCount(n) == n # 2

CheckArgs ==
    /\ pc = "args"
    /\ IF BadArgCount(argc)
       THEN Exit(1, UsageMsg(tool))
       ELSE /\ pc' = IF tool = "filter_policies" THEN "exists" ELSE "open_in"
            /\ UNCHANGED <<exitCode, stderr>>
    /\ UNCHANGED <<tool, argc, fsVars, srcText, dstExists, dstText, handles, opens,
                   rest, nread, filterVars, rewriteVars, run, firstOut>>

\* ------------------------------------------------------- filter_policies
disallowed_schemas == { <<"s", "t", "o", "r", "a", "g", "e">> }

\* mutant: the match without lower-casing the statement
keep_statement_case_sensitive(stmt) ==
    ~ \E schema \in disallowed_schemas :
        \/ contains(stmt, schema \o <<".">>)
        \/ contains(stmt, <<"\"">> \o schema \o <<"\"">>)

keep_statement(stmt) ==
    LET lower_stmt == lower(stmt)
    IN  ~ \E schema \in disallowed_schemas :
            \/ contains(lower_stmt, schema \o <<".">>)
            \/ contains(lower_stmt, <<"\"">> \o schema \o <<"\"">>)

\* if not source.exists(): raise SystemExit(...)
CheckSource ==
    /\ pc = "exists"
    /\ tool = "filter_policies"
    /\ IF ~srcExists
       THEN Exit(1, SourceNotFoundMsg)
       ELSE /\ pc' = "open_src"
            /\ UNCHANGED <<exitCode, stderr>>
    /\ UNCHANGED <<tool, argc, fsVars, srcText, dstExists, dstText, handles, opens,
                   rest, nread, filterVars, rewriteVars, run, firstOut>>

\* with source.open("r") as infile: the file holds whatever text the
\* environment put there (on the second run, the first run's output).
OpenSource ==
    /\ pc = "open_src"
    /\ IF run = 1
       THEN \E text \in Inputs(tool) : srcText' = text
       ELSE UNCHANGED srcText
    /\ rest' = SplitLines(srcText')
    /\ handles' = handles \cup {"infile"}
    /\ opens' = Append(opens, <<"source", "r">>)
    /\ pc' = "read"
    /\ UNCHANGED <<tool, argc, fsVars, dstExists, dstText, exitCode, stderr,
                   nread, filterVars, rewriteVars, run, firstOut>>

\* one iteration of `for line in infile`
ReadLine ==
    /\ pc = "read"
    /\ rest # <<>>
    /\ LET line == Head(rest)
       IN  IF EndsSemi(line)
           THEN /\ statements' = Append(statements, join(Append(statement, line)))
                /\ statement' = <<>>
           ELSE /\ statement' = Append(statement, line)
                /\ UNCHANGED statements
    /\ rest' = Tail(rest)
    /\ nread' = nread + 1
    /\ UNCHANGED <<tool, argc, pc, fsVars, srcText, dstExists, dstText, handles,
                   opens, exitCode, stderr, wi, rewriteVars, run, firstOut>>

\* the iterator is exhausted: leave the with block, closing infile
EndRead ==
    /\ pc = "read"
    /\ rest = <<>>
    /\ handles' = handles \ {"infile"}
    /\ pc' = "flush"
    /\ UNCHANGED <<tool, argc, fsVars, srcText, dstExists, dstText, opens, exitCode,
                   stderr, rest, nread, filterVars, rewriteVars, run, firstOut>>

\* mutant: the leftover buffer is forgotten at end of input
FlushStatementDropped ==
    /\ pc = "flush"
    /\ pc' = "open_dst"
    /\ UNCHANGED <<tool, argc, fsVars, srcText, dstExists, dstText, handles, opens,
                   exitCode, stderr, rest, nread, filterVars, rewriteVars,
                   run, firstOut>>

\* if statement: statements.append("".join(statement))
FlushStatement ==
    /\ pc = "flush"
    /\ statements' = IF statement # <<>>
                     THEN Append(statements, join(statement))
                     ELSE statements
    /\ pc' = "open_dst"
    /\ UNCHANGED <<tool, argc, fsVars, srcText, dstExists, dstText, handles, opens,
                   exitCode, stderr, rest, nread, statement, wi, rewriteVars,
                   run, firstOut>>

\* with destination.open("w") as outfile: truncates; a failure is uncaught
OpenDestination ==
    /\ pc = "open_dst"
    /\ opens' = Append(opens, <<"destination", "w">>)
    /\ IF dstOpen = "ok"
       THEN /\ dstExists' = TRUE
            /\ dstText' = <<>>
            /\ handles' = handles \cup {"outfile"}
            /\ wi' = 1
            /\ pc' = "write"
            /\ UNCHANGED <<exitCode, stderr>>
       ELSE /\ Exit(1, Traceback("destination"))
            /\ UNCHANGED <<dstExists, dstText, handles, wi>>
    /\ UNCHANGED <<tool, argc, fsVars, srcText, rest, nread, statement, statements,
                   rewriteVars, run, firstOut>>

\* mutant: the statement is written with its newline but no blank line
WriteStatementNoBlankLine ==
    /\ pc = "write"
    /\ wi <= Len(statements)
    /\ LET stmt == statements[wi]
       IN  dstText' = IF keep_statement(stmt)
                      THEN dstText \o strip(stmt) \o <<"\n">>
                      ELSE dstText
    /\ wi' = wi + 1
    /\ UNCHANGED <<tool, argc, pc, fsVars, srcText, dstExists, handles, opens,
                   exitCode, stderr, rest, nread, statement, statements,
                   rewriteVars, run, firstOut>>

\* one iteration of `for stmt in statements`
WriteStatement ==
    /\ pc = "write"
    /\ wi <= Len(statements)
    /\ LET stmt == statements[wi]
       IN  dstText' = IF keep_statement(stmt)
                      THEN dstText \o strip(stmt) \o <<"\n", "\n">>
                      ELSE dstText
    /\ wi' = wi + 1
    /\ UNCHANGED <<tool, argc, pc, fsVars, srcText, dstExists, handles, opens,
                   exitCode, stderr, rest, nread, statement, statements,
                   rewriteVars, run, firstOut>>

\* the loop is over: leave the with block, closing outfile; the script ends
FinishWrite ==
    /\ pc = "write"
    /\ wi > Len(statements)
    /\ handles' = handles \ {"outfile"}
    /\ Exit(0, NoMsg)
    /\ UNCHANGED <<tool, argc, fsVars, srcText, dstExists, dstText, opens, rest,
                   nread, filterVars, rewriteVars, run, firstOut>>

\* The caller runs filter_policies again, with the file the first run wrote
\* as its source.
RerunOnOutput ==
    /\ pc = "exited"
    /\ tool = "filter_policies"
    /\ exitCode = 0
    /\ run = 1
    /\ run' = 2
    /\ firstOut' = dstText
    /\ srcText' = dstText
    /\ pc' = "args"
    /\ exitCode' = -1
    /\ opens' = <<>>
    /\ nread' = 0
    /\ statement' = <<>>
    /\ statements' = <<>>
    /\ wi' = 1
    /\ UNCHANGED <<tool, argc, fsVars, dstExists, dstText, handles, stderr, rest,
                   rewriteVars>>

\* --------------------------------------------------- sql_add_on_conflict
OnConflict == <<" ", "O", "N", " ", "C", "O", "N", "F", "L", "I", "C", "T", " ",
                "D", "O", " ", "N", "O", "T", "H", "I", "N", "G", ";", "\n">>
InsertInto == <<"I", "N", "S", "E", "R", "T", " ", "I", "N", "T", "O">>

\* statement = "".join(buffer)
\* statement = statement.rstrip().rstrip(";") + " ON CONFLICT DO NOTHING;\n"
Closing(buf) == rstripSemi(rstrip(join(buf))) \o OnConflict

\* mutant: the output is opened (and truncated) before the input
OpenInputAfterOutput ==
    /\ pc = "open_in"
    /\ tool = "sql_add_on_conflict"
    /\ opens' = opens \o << <<"output_path", "w">>, <<"input_path", "r">> >>
    /\ IF dstOpen = "ok"
       THEN dstExists' = TRUE /\ dstText' = <<>>
       ELSE UNCHANGED <<dstExists, dstText>>
    /\ IF ~srcExists
       THEN /\ Exit(1, InputNotFoundMsg)
            /\ UNCHANGED <<srcText, handles>>
       ELSE /\ \E text \in Inputs(tool) : srcText' = text
            /\ handles' = handles \cup {"f_in"}
            /\ pc' = "open_out"
            /\ UNCHANGED <<exitCode, stderr>>
    /\ UNCHANGED <<tool, argc, fsVars, rest, nread, filterVars,
                   rewriteVars, run, firstOut>>

\* with open(input_path, "r") as f_in, ...: the first context manager.
\* A missing input raises FileNotFoundError, which the except clause turns
\* into the message and sys.exit(1).
OpenInput ==
    /\ pc = "open_in"
    /\ tool = "sql_add_on_conflict"
    /\ opens' = Append(opens, <<"input_path", "r">>)
    /\ IF ~srcExists
       THEN /\ Exit(1, InputNotFoundMsg)
            /\ UNCHANGED <<srcText, handles>>
       ELSE /\ \E text \in Inputs(tool) : srcText' = text
            /\ handles' = handles \cup {"f_in"}
            /\ pc' = "open_out"
            /\ UNCHANGED <<exitCode, stderr>>
    /\ UNCHANGED <<tool, argc, fsVars, dstExists, dstText, rest, nread, filterVars,
                   rewriteVars, run, firstOut>>

\* mutant: f_in is opened outside the with statement, so a failing
\* open of the output leaves it open
OpenOutputLeak ==
    /\ pc = "open_out"
    /\ opens' = Append(opens, <<"output_path", "w">>)
    /\ IF dstOpen = "ok"
       THEN /\ dstExists' = TRUE
            /\ dstText' = <<>>
            /\ handles' = handles \cup {"f_out"}
            /\ rest' = SplitLines(srcText)
            /\ inside' = FALSE
            /\ buffer' = <<>>
            /\ pc' = "loop"
            /\ UNCHANGED <<exitCode, stderr>>
       ELSE /\ Exit(1, IF dstOpen = "enoent" THEN InputNotFoundMsg
                       ELSE Traceback("output_path"))
            /\ UNCHANGED <<dstExists, dstText, handles, rest, inside, buffer>>
    /\ UNCHANGED <<tool, argc, fsVars, srcText, nread, filterVars, run, firstOut>>

\* ..., open(output_path, "w") as f_out: the second context manager. When
\* it raises, the with statement closes f_in on the way out; a
\* FileNotFoundError (missing directory) reaches the except clause, any
\* other OSError is uncaught.
OpenOutput ==
    /\ pc = "open_out"
    /\ opens' = Append(opens, <<"output_path", "w">>)
    /\ IF dstOpen = "ok"
       THEN /\ dstExists' = TRUE
            /\ dstText' = <<>>
            /\ handles' = handles \cup {"f_out"}
            /\ rest' = SplitLines(srcText)
            /\ inside' = FALSE
            /\ buffer' = <<>>
            /\ pc' = "loop"
            /\ UNCHANGED <<exitCode, stderr>>
       ELSE /\ handles' = handles \ {"f_in"}
            /\ Exit(1, IF dstOpen = "enoent" THEN InputNotFoundMsg
                       ELSE Traceback("output_path"))
            /\ UNCHANGED <<dstExists, dstText, rest, inside, buffer>>
    /\ UNCHANGED <<tool, argc, fsVars, srcText, nread, filterVars, run, firstOut>>

\* one iteration of `for line in f_in`
RewriteLine ==
    /\ pc = "loop"
    /\ rest # <<>>
    /\ LET line == Head(rest)
       IN  IF ~inside /\ startswith(upper(line), InsertInto)
           THEN /\ inside' = TRUE
                /\ buffer' = <<line>>
                /\ UNCHANGED dstText
           ELSE IF inside
           THEN /\ buffer' = Append(buffer, line)
                /\ IF EndsSemi(line)
                   THEN /\ dstText' = dstText \o Closing(buffer')
                        /\ inside' = FALSE
                   ELSE UNCHANGED <<dstText, inside>>
           ELSE /\ dstText' = dstText \o line
                /\ UNCHANGED <<inside, buffer>>
    /\ rest' = Tail(rest)
    /\ nread' = nread + 1
    /\ UNCHANGED <<tool, argc, pc, fsVars, srcText, dstExists, handles, opens,
                   exitCode, stderr, filterVars, run, firstOut>>

\* the iterator is exhausted
EndLoop ==
    /\ pc = "loop"
    /\ rest = <<>>
    /\ pc' = "eof"
    /\ UNCHANGED <<tool, argc, fsVars, srcText, dstExists, dstText, handles, opens,
                   exitCode, stderr, rest, nread, filterVars, rewriteVars, run,
                   firstOut>>

\* mutant: no flush of the leftover buffer at end of input
EofFlushNoWrite ==
    /\ pc = "eof"
    /\ handles' = handles \ {"f_in", "f_out"}
    /\ Exit(0, NoMsg)
    /\ UNCHANGED <<tool, argc, fsVars, srcText, dstExists, dstText, opens, rest,
                   nread, filterVars, rewriteVars, run, firstOut>>

\* if inside: write the closed leftover buffer; then the with block ends,
\* closing both files, and the script ends
EofFlush ==
    /\ pc = "eof"
    /\ dstText' = IF inside THEN dstText \o Closing(buffer) ELSE dstText
    /\ handles' = handles \ {"f_in", "f_out"}
    /\ Exit(0, NoMsg)
    /\ UNCHANGED <<tool, argc, fsVars, srcText, dstExists, opens, rest, nread,
                   filterVars, rewriteVars, run, firstOut>>

Next ==
    \/ CheckArgs
    \/ CheckSource
    \/ OpenSource
    \/ ReadLine
    \/ EndRead
    \/ FlushStatement
    \/ OpenDestination
    \/ WriteStatement
    \/ FinishWrite
    \/ RerunOnOutput
    \/ OpenInput
    \/ OpenOutput
    \/ RewriteLine
    \/ EndLoop
    \/ EofFlush

Spec == Init /\ [][Next]_vars
\* ================================================================ claims
FilterRan == tool = "filter_policies" /\ pc = "exited" /\ exitCode = 0
RewriteRan == tool = "sql_add_on_conflict" /\ pc = "exited" /\ exitCode = 0
SplitDone ==
    /\ tool = "filter_policies"
    /\ pc \in {"open_dst", "write"} \/ (pc = "exited" /\ Len(opens) = 2)
DstUntouched ==
    /\ dstExists = dstOld
    /\ dstText = IF dstOld THEN OldText ELSE <<>>
    /\ \A i \in 1..Len(opens) : opens[i][2] # "w"
StorageDot == <<"s", "t", "o", "r", "a", "g", "e", ".">>
QuotedStorage == <<"\"", "s", "t", "o", "r", "a", "g", "e", "\"">>
MentionsStorage(s) ==
    contains(lower(s), StorageDot) \/ contains(lower(s), QuotedStorage)
LastOf(q) == q[Len(q)]

RECURSIVE LinesOfAll(_)
LinesOfAll(ss) ==
    IF ss = <<>> THEN <<>> ELSE SplitLines(ss[1]) \o LinesOfAll(Tail(ss))

\* C10: once filter_policies has split its input, the statements are a
\* partition of the input lines into consecutive runs (joined in order
\* they give back the input); no statement has a line ending in ";" before
\* its last line; every statement but the last ends with such a line; and
\* the last statement lacks one exactly when lines were left in the
\* buffer at end of input, in which case it is those lines.
C10_SplitIsPartition ==
    SplitDone =>
        /\ join(statements) = srcText
        /\ LinesOfAll(statements) = SplitLines(srcText)
        /\ \A i \in 1..Len(statements) :
              LET ls == SplitLines(statements[i])
              IN  /\ ls # <<>>
                  /\ \A j \in 1..(Len(ls) - 1) : ~EndsSemi(ls[j])
                  /\ i < Len(statements) => EndsSemi(LastOf(ls))
        /\ statement # <<>> =>
              /\ statements # <<>>
              /\ LastOf(statements) = join(statement)
              /\ ~EndsSemi(LastOf(SplitLines(LastOf(statements))))
        /\ statement = <<>> =>
              \A i \in 1..Len(statements) :
                  EndsSemi(LastOf(SplitLines(statements[i])))

C10_Witness ==
    /\ SplitDone
    /\ Len(statements) >= 2
    /\ statement # <<>>
    /\ Len(SplitLines(statements[1])) >= 2

RECURSIVE KeptOutput(_)
KeptOutput(ss) ==
    IF ss = <<>> THEN <<>>
    ELSE (IF MentionsStorage(ss[1]) THEN <<>>
          ELSE strip(ss[1]) \o <<"\n", "\n">>) \o KeptOutput(Tail(ss))

\* C5: the destination of filter_policies is exactly the concatenation,
\* in input order, of each kept statement stripped of leading and trailing
\* whitespace and followed by a newline and one blank line; this holds of
\* the statements written so far at every point of the write loop.
C5_DestinationIsKeptConcat ==
    /\ (tool = "filter_policies" /\ pc = "write")
          => dstText = KeptOutput(SubSeq(statements, 1, wi - 1))
    /\ FilterRan => dstText = KeptOutput(statements)

C5_Witness ==
    /\ FilterRan
    /\ Len(statements) = 3
    /\ ~MentionsStorage(statements[1])
    /\ MentionsStorage(statements[2])
    /\ ~MentionsStorage(statements[3])
    /\ strip(statements[1]) # statements[1]
    /\ IsSpace(statements[1][1])

\* C3: filter_policies drops a statement if and only if its lower-cased
\* text contains `storage.` or `"storage"`: the destination mentions
\* neither (in any letter case), no dropped statement's text is in it, and
\* every statement that mentions neither is in it, stripped and followed
\* by its blank line.
C3_DroppedIffStorage ==
    FilterRan =>
        /\ ~MentionsStorage(dstText)
        /\ \A i \in 1..Len(statements) :
              IF MentionsStorage(statements[i])
              THEN ~contains(dstText, strip(statements[i]))
              ELSE contains(dstText, strip(statements[i]) \o <<"\n", "\n">>)

C3_Witness ==
    /\ FilterRan
    /\ \E i \in 1..Len(statements) :
          /\ MentionsStorage(statements[i])
          /\ ~contains(statements[i], StorageDot)
          /\ ~contains(statements[i], QuotedStorage)
    /\ \E i \in 1..Len(statements) :
          /\ ~MentionsStorage(statements[i])
          /\ contains(statements[i], <<"s", "t", "o", "r", "a", "g", "e">>)

\* C4 (as claimed): running filter_policies on the destination file it
\* produced yields a file byte-equal to that destination file.
C4_SecondRunByteEqual ==
    (FilterRan /\ run = 2) => dstText = firstOut
\* The reading of an input that C1 and C2 state: an INSERT statement starts
\* at a line whose upper-cased text starts with INSERT INTO and ends at the
\* first line, the starting line included, that ends with ";".
IsInsertStart(line) == startswith(upper(line), InsertInto)
FirstSemi(ls) ==
    LET S == {j \in 1..Len(ls) : EndsSemi(ls[j])}
    IN  IF S = {} THEN 0 ELSE Min(S)

RECURSIVE ClaimedRewrite(_)
ClaimedRewrite(ls) ==
    IF ls = <<>> THEN <<>>
    ELSE IF IsInsertStart(ls[1])
    THEN LET k == FirstSemi(ls)
         IN  IF k = 0
             THEN rstripSemi(rstrip(join(ls))) \o OnConflict
             ELSE rstripSemi(rstrip(join(SubSeq(ls, 1, k)))) \o OnConflict
                  \o ClaimedRewrite(SubSeq(ls, k + 1, Len(ls)))
    ELSE ls[1] \o ClaimedRewrite(Tail(ls))

RECURSIVE NonInsertLines(_)
NonInsertLines(ls) ==
    IF ls = <<>> THEN <<>>
    ELSE IF IsInsertStart(ls[1])
    THEN LET k == FirstSemi(ls)
         IN  IF k = 0 THEN <<>>
             ELSE NonInsertLines(SubSeq(ls, k + 1, Len(ls)))
    ELSE <<ls[1]>> \o NonInsertLines(Tail(ls))

RECURSIVE IsSubsequence(_, _)
IsSubsequence(a, b) ==
    IF a = <<>> THEN TRUE
    ELSE IF b = <<>> THEN FALSE
    ELSE IF a[1] = b[1] THEN IsSubsequence(Tail(a), Tail(b))
    ELSE IsSubsequence(a, Tail(b))

\* C1 (as claimed): the output of sql_add_on_conflict is the input with
\* every INSERT statement, single-line ones included, closed by
\* ` ON CONFLICT DO NOTHING;` in place of its final ";" and everything else
\* passed through.
C1_EveryInsertRewritten ==
    RewriteRan => dstText = ClaimedRewrite(SplitLines(srcText))

\* C2 (as claimed): the lines of the input that belong to no INSERT
\* statement appear in the output of sql_add_on_conflict unchanged and in
\* the same relative order.
C2_OtherLinesVerbatim ==
    RewriteRan =>
        IsSubsequence(NonInsertLines(SplitLines(srcText)), SplitLines(dstText))

\* C6: when sql_add_on_conflict reaches end of input in the Inside state,
\* the output ends with the whole leftover buffer closed: the joined
\* buffered lines less their trailing whitespace and trailing ";", then
\* ` ON CONFLICT DO NOTHING;` and a newline. No buffered line is lost.
C6_LeftoverBufferClosed ==
    (RewriteRan /\ inside) =>
        LET J == join(buffer)
            body == SubSeq(dstText, 1, Len(dstText) - Len(OnConflict))
        IN  /\ buffer # <<>>
            /\ endswith(dstText, OnConflict)
            /\ \E k \in 0..Len(J) : \E m \in k..Len(J) :
                  /\ endswith(body, SubSeq(J, 1, k))
                  /\ \A i \in (k + 1)..m : J[i] = ";"
                  /\ \A i \in (m + 1)..Len(J) : IsSpace(J[i])
                  /\ k > 0 => J[k] # ";"
                  /\ (k > 0 /\ m = k) => ~IsSpace(J[k])

C6_Witness ==
    /\ RewriteRan
    /\ inside
    /\ Len(buffer) >= 2
    /\ ~EndsSemi(LastOf(buffer))
    /\ dstText # join(buffer) \o OnConflict

\* C7: with an argument count other than two, either tool stops at the
\* argument check: no open() call is ever made, the destination is neither
\* created, truncated nor written, and the run ends with a non-zero exit
\* status and the usage message.
C7_UsageErrorTouchesNothing ==
    argc # 2 =>
        /\ pc \in {"args", "exited"}
        /\ opens = <<>>
        /\ handles = {}
        /\ DstUntouched
        /\ pc = "exited" => (exitCode # 0 /\ stderr = UsageMsg(tool))

C7_Witness ==
    /\ argc = 3
    /\ pc = "exited"
    /\ dstOld
    /\ srcExists
    /\ dstOpen = "ok"

\* C8: with two arguments and a missing source/input file, either tool
\* reads no line and never opens the destination for writing (it is neither
\* created nor truncated), and the run ends with exit code 1 and the
\* not-found message naming the source/input path.
C8_MissingInputFailsFast ==
    (argc = 2 /\ ~srcExists) =>
        /\ nread = 0
        /\ rest = <<>>
        /\ handles = {}
        /\ DstUntouched
        /\ pc = "exited" =>
              /\ exitCode = 1
              /\ stderr = IF tool = "filter_policies"
                          THEN <<"Source SQL file not found", "source">>
                          ELSE <<"[ERROR] File not found", "input_path">>

C8_Witness ==
    /\ argc = 2
    /\ ~srcExists
    /\ pc = "exited"
    /\ tool = "sql_add_on_conflict"
    /\ dstOld
    /\ dstOpen = "ok"

\* C9: whenever a run of either tool has terminated, on any exit path, no
\* file handle it opened is still open.
C9_NoHandleLeftOpen ==
    pc = "exited" => handles = {}

C9_Witness ==
    /\ pc = "exited"
    /\ exitCode = 1
    /\ tool = "sql_add_on_conflict"
    /\ srcExists
    /\ dstOpen # "ok"
    /\ Len(opens) = 2
====
